---- MODULE Spec2Model ----
(***************************************************************************)
(* A model of uninit-tools' Buffer (src/src/buffer.rs): a container of     *)
(* possibly-uninitialized slots, the initialization cursor kept by the     *)
(* BufferInitializer ("Tracker") and the filled cursor kept by the Buffer. *)
(*                                                                         *)
(* A slot holds either an item or Uninit (a MaybeUninit slot that was      *)
(* never written).  usize arithmetic is kept at a reduced word width.      *)
(***************************************************************************)
EXTENDS Integers, Sequences, FiniteSets, TLC

\* ------------------------------------------------------------------------
\* Bounds
\* ------------------------------------------------------------------------

\* largest capacity of a container
MaxCap == 3
\* longest slice handed to append
MaxSlice == 4
\* width of usize in bits
UsizeBits == 6
\* deepest call stack before the stack overflows
MaxStack == 4

USIZE_MOD == 2 ^ UsizeBits
\* the u8 items of the tests: 0_u8 and 0xFF_u8
ZeroByte == 0
FillByte == 255
Items == {ZeroByte, FillByte}
\* the counts handed to the operations: those a container of the largest
\* capacity can hold, the first that it cannot, and usize::MAX
Counts == (0 .. (MaxCap + 1)) \cup {USIZE_MOD - 1}
\* MaybeUninit::uninit(): a slot that holds no item
Uninit == -1
\* what a MaybeUninit slot is set to: MaybeUninit::new(item) or
\* MaybeUninit::uninit()
Slots == Items \cup {Uninit}
\* the cursors are followed up to one item beyond the largest capacity
MaxCursor == MaxCap + 1
\* what a call whose write outside the container can land in a cursor does
\* to the cursor: it is left as before the call, moved as the arithmetic of
\* the call gives, or overwritten, usize::MAX standing for every other value
CursorFates == {"untouched", "moved", "overwritten"}
UndefinedCursor(before, after, fate) ==
    CASE fate = "untouched" -> before
      [] fate = "moved" -> after
      [] fate = "overwritten" -> USIZE_MOD - 1

SeqsOf(S, n) == UNION {[1 .. k -> S] : k \in 0 .. n}
Slices == SeqsOf(Items, MaxSlice)
Repeat(x, n) == [i \in 1 .. n |-> x]

\* ------------------------------------------------------------------------
\* usize arithmetic
\* ------------------------------------------------------------------------

wrapping_sub(a, b) == (a - b) % USIZE_MOD
wrapping_add(a, b) == (a + b) % USIZE_MOD
max(a, b) == IF a >= b THEN a ELSE b

\* ------------------------------------------------------------------------
\* BufferInitializer (the Tracker): [inner, items_initialized]
\* ------------------------------------------------------------------------

BufferInitializer_uninit(inner) == [inner |-> inner, items_initialized |-> 0]

BufferInitializer_new(init) == [inner |-> init, items_initialized |-> Len(init)]

all_uninit(t) == t.inner

initializer_capacity(t) == Len(all_uninit(t))

initializer_remaining(t) == wrapping_sub(initializer_capacity(t), t.items_initialized)

init_part(t) == SubSeq(t.inner, 1, t.items_initialized)

uninit_part(t) == SubSeq(t.inner, t.items_initialized + 1, initializer_capacity(t))

\* mutant: the slots are written and the cursor stays
partially_fill_uninit_part_no_advance(t, count, value) ==
    IF count > initializer_remaining(t)
    THEN [initializer |-> t, panicked |-> TRUE]
    ELSE [initializer |->
             [inner |-> [i \in 1 .. Len(t.inner) |->
                            IF i > t.items_initialized /\ i <= t.items_initialized + count
                            THEN value ELSE t.inner[i]],
              items_initialized |-> t.items_initialized],
          panicked |-> FALSE]

\* mutant: the count is not compared with remaining()
partially_fill_uninit_part_unchecked(t, count, value) ==
    [initializer |->
        [inner |-> [i \in 1 .. Len(t.inner) |->
                       IF i > t.items_initialized /\ i <= t.items_initialized + count
                       THEN value ELSE t.inner[i]],
         items_initialized |-> t.items_initialized + count],
     panicked |-> FALSE]

\* mutant: a count beyond remaining() is cut down to it and reported as done
partially_fill_uninit_part_truncating(t, count, value) ==
    LET n == IF count > initializer_remaining(t) THEN initializer_remaining(t) ELSE count
    IN  [initializer |->
            [inner |-> [i \in 1 .. Len(t.inner) |->
                           IF i > t.items_initialized /\ i <= t.items_initialized + n
                           THEN value ELSE t.inner[i]],
             items_initialized |-> t.items_initialized + n],
         panicked |-> FALSE]

\* writes `value` into the next `count` slots and advances the cursor, or
\* fails when count > remaining()
partially_fill_uninit_part(t, count, value) ==
    IF count > initializer_remaining(t)
    THEN [initializer |-> t, panicked |-> TRUE]
    ELSE [initializer |->
             [inner |-> [i \in 1 .. Len(t.inner) |->
                            IF i > t.items_initialized /\ i <= t.items_initialized + count
                            THEN value ELSE t.inner[i]],
              items_initialized |-> t.items_initialized + count],
          panicked |-> FALSE]

partially_zero_uninit_part(t, count) == partially_fill_uninit_part(t, count, ZeroByte)

\* unsafe: sets items_initialized to the capacity and writes nothing
advance_to_end(t) == [inner |-> t.inner, items_initialized |-> initializer_capacity(t)]

\* AssertInit { inner }
AssertInit_new_unchecked(inner) == [inner |-> inner]

\* &*(inner_slice as *const T as *const Self): the same container, unchecked
AssertInit_from_ref(inner) == [inner |-> inner]

\* &mut *(inner_slice as *mut T as *mut Self): the same container, unchecked
AssertInit_from_mut(inner) == [inner |-> inner]

\* #[derive(Clone, Copy)]: a wrapper of its own over a copy of the container
AssertInit_clone(a) == [inner |-> a.inner]

AssertInit_into_inner(a) == a.inner

\* cast_uninit_to_init_slice(self.inner().as_maybe_uninit_slice()): every
\* slot of the container, handed out as an item
get_init_ref(a) == [i \in 1 .. Len(a.inner) |-> a.inner[i]]

\* cast_uninit_to_init_slice_mut over the whole container
get_init_mut(a) == [i \in 1 .. Len(a.inner) |-> a.inner[i]]

\* mutant: a Tracker that is not fully initialized comes back reset
try_into_init_resets(t) ==
    IF t.items_initialized = initializer_capacity(t)
    THEN [ok |-> TRUE, init |-> AssertInit_new_unchecked(t.inner), initializer |-> t]
    ELSE [ok |-> FALSE, init |-> AssertInit_new_unchecked(<<>>),
          initializer |-> BufferInitializer_uninit(t.inner)]

\* consumes the Tracker: the initialized container when items_initialized
\* is the capacity, and the Tracker itself back otherwise
try_into_init(t) ==
    IF t.items_initialized = initializer_capacity(t)
    THEN [ok |-> TRUE, init |-> AssertInit_new_unchecked(t.inner), initializer |-> t]
    ELSE [ok |-> FALSE, init |-> AssertInit_new_unchecked(<<>>), initializer |-> t]

\* mutant: the slots are read from the last to the first
array_from_assert_init_reversed(a) ==
    [i \in 1 .. Len(a.inner) |-> a.inner[Len(a.inner) + 1 - i]]

\* From<AssertInit<[MaybeUninit<T>; N]>> for [T; N]: the N slots, read as items
array_from_assert_init(a) == [i \in 1 .. Len(a.inner) |-> a.inner[i]]

\* ------------------------------------------------------------------------
\* Buffer: [initializer, items_filled]
\* ------------------------------------------------------------------------

\* mutant: the buffer starts filled up to the initialization cursor
from_initializer_filled(t) ==
    [initializer |-> t, items_filled |-> t.items_initialized]

\* mutant: the Tracker starts over as well
from_initializer_reset(t) ==
    [initializer |-> BufferInitializer_uninit(t.inner), items_filled |-> 0]

from_initializer(initializer) == [initializer |-> initializer, items_filled |-> 0]

\* mutant: the container is taken to be initialized already
Buffer_uninit_as_new(inner) == from_initializer(BufferInitializer_new(inner))

Buffer_uninit(inner) == from_initializer(BufferInitializer_uninit(inner))

Buffer_new(init) == from_initializer(BufferInitializer_new(init))

into_initializer(b) == b.initializer

items_filled_of(b) == b.items_filled

capacity(b) == initializer_capacity(b.initializer)

\* debug_assert_validity: TRUE when no assertion fires
validity(b) ==
    /\ b.initializer.items_initialized <= initializer_capacity(b.initializer)
    /\ items_filled_of(b) <= capacity(b)
    /\ items_filled_of(b) <= b.initializer.items_initialized

\* debug_assert!(self.capacity() >= self.items_filled), then the wrapping
\* subtraction: a failed assertion gives no value
remaining(b, debug) ==
    IF debug /\ ~(capacity(b) >= b.items_filled)
    THEN [panicked |-> TRUE]
    ELSE [panicked |-> FALSE, value |-> wrapping_sub(capacity(b), b.items_filled)]

is_full(b) == items_filled_of(b) = capacity(b)

is_empty(b) == items_filled_of(b) = 0

filled_part(b) == SubSeq(all_uninit(b.initializer), 1, b.items_filled)

unfilled_part(b) ==
    SubSeq(all_uninit(b.initializer), b.items_filled + 1,
           b.items_filled + wrapping_sub(Len(all_uninit(b.initializer)), b.items_filled))

unfilled_init_part(b) ==
    SubSeq(all_uninit(b.initializer), b.items_filled + 1,
           b.items_filled + wrapping_sub(b.initializer.items_initialized, b.items_filled))

unfilled_uninit_part(b) == uninit_part(b.initializer)

\* BufferParts { filled_part, unfilled_init_part, unfilled_uninit_part }
all_parts(b) ==
    [filled_part |-> filled_part(b),
     unfilled_init_part |-> unfilled_init_part(b),
     unfilled_uninit_part |-> unfilled_uninit_part(b)]

\* mutant: the uninitialized part is taken from the filled cursor on
all_parts_mut_uninit_at_filled(b) ==
    LET all == all_uninit(b.initializer)
        unfilled_init_len == wrapping_sub(b.initializer.items_initialized, b.items_filled)
        unfilled_uninit_len == wrapping_sub(Len(all), b.initializer.items_initialized)
    IN  [filled_part |-> SubSeq(all, 1, b.items_filled),
         unfilled_init_part |->
             SubSeq(all, b.items_filled + 1, b.items_filled + unfilled_init_len),
         unfilled_uninit_part |->
             SubSeq(all, b.items_filled + 1, b.items_filled + unfilled_uninit_len)]

\* the three parts as slices from_raw_parts_mut(base, len) of all_uninit_mut():
\* filled at all_ptr, unfilled_init at all_ptr + items_filled and
\* unfilled_uninit at all_ptr + items_initialized
all_parts_mut(b) ==
    LET all == all_uninit(b.initializer)
        all_len == Len(all)
        filled_len == b.items_filled
        unfilled_init_len == wrapping_sub(b.initializer.items_initialized, b.items_filled)
        unfilled_uninit_len == wrapping_sub(all_len, b.initializer.items_initialized)
    IN  [filled_part |-> SubSeq(all, 1, filled_len),
         unfilled_init_part |->
             SubSeq(all, b.items_filled + 1, b.items_filled + unfilled_init_len),
         unfilled_uninit_part |->
             SubSeq(all, b.initializer.items_initialized + 1,
                    b.initializer.items_initialized + unfilled_uninit_len)]

\* mutant: the initialization cursor is advanced by count, as the filled one
assume_init_both_by_count(b, count, debug) ==
    [buffer |-> [initializer |-> [inner |-> b.initializer.inner,
                                  items_initialized |->
                                      b.initializer.items_initialized + count],
                 items_filled |-> b.items_filled + count],
     panicked |-> FALSE]

\* mutant: the initialization cursor is left where it was
assume_init_no_max(b, count, debug) ==
    [buffer |-> [initializer |-> b.initializer,
                 items_filled |-> (b.items_filled + count) % USIZE_MOD],
     panicked |-> FALSE]

\* mutant: the filled cursor is advanced by one item more than count
assume_init_one_more(b, count, debug) ==
    LET filled == (b.items_filled + count + 1) % USIZE_MOD
    IN  [buffer |-> [initializer |->
                         [inner |-> b.initializer.inner,
                          items_initialized |-> max(filled, b.initializer.items_initialized)],
                     items_filled |-> filled],
         panicked |-> FALSE]

\* self.items_filled += count: overflow panics when debug assertions are on
\* and wraps otherwise; then the initialization cursor is raised to at least
\* the filled cursor and the validity is debug-asserted
assume_init(b, count, debug) ==
    IF debug /\ b.items_filled + count >= USIZE_MOD
    THEN [buffer |-> b, panicked |-> TRUE]
    ELSE LET filled == (b.items_filled + count) % USIZE_MOD
             nb == [initializer |->
                        [inner |-> b.initializer.inner,
                         items_initialized |-> max(filled, b.initializer.items_initialized)],
                    items_filled |-> filled]
         IN  [buffer |-> nb, panicked |-> debug /\ ~validity(nb)]

\* mutant: only the filled cursor is set to the capacity
assume_init_all_filled_only(b) ==
    [initializer |-> b.initializer, items_filled |-> capacity(b)]

assume_init_all(b) ==
    [initializer |-> [inner |-> b.initializer.inner, items_initialized |-> capacity(b)],
     items_filled |-> capacity(b)]

\* unfilled_part_mut() has no defined behaviour: its slice starts beyond the
\* container (debug_assert_validity is compiled out and the filled cursor is
\* beyond the capacity)
unfilled_part_mut_undefined(b, debug) == ~debug /\ b.items_filled > capacity(b)

\* the length of the slice unfilled_part_mut() hands out
unfilled_part_mut_len(b) == wrapping_sub(Len(all_uninit(b.initializer)), b.items_filled)

\* mutant: the copy is made before the length is checked, as far as it fits
append_copy_before_check(b, slice, debug) ==
    LET room == Len(b.initializer.inner) - b.items_filled
        copied == [i \in 1 .. Len(b.initializer.inner) |->
                      IF i > b.items_filled /\ i <= b.items_filled + Len(slice)
                      THEN slice[i - b.items_filled]
                      ELSE b.initializer.inner[i]]
        wb == [initializer |-> [inner |-> copied,
                                items_initialized |-> b.initializer.items_initialized],
               items_filled |-> b.items_filled]
    IN  IF Len(slice) > room
        THEN [buffer |-> wb, panicked |-> TRUE]
        ELSE [buffer |-> [initializer |->
                             [inner |-> copied,
                              items_initialized |->
                                  max(b.items_filled + Len(slice),
                                      b.initializer.items_initialized)],
                          items_filled |-> b.items_filled + Len(slice)],
              panicked |-> FALSE]

\* mutant: the slice is copied to the start of the container, not to the
\* unfilled part
append_at_start(b, slice, debug) ==
    IF Len(slice) > Len(b.initializer.inner) - b.items_filled
    THEN [buffer |-> b, panicked |-> TRUE]
    ELSE [buffer |-> [initializer |->
                         [inner |-> [i \in 1 .. Len(b.initializer.inner) |->
                                        IF i <= Len(slice) THEN slice[i]
                                        ELSE b.initializer.inner[i]],
                          items_initialized |->
                              max(b.items_filled + Len(slice),
                                  b.initializer.items_initialized)],
                      items_filled |-> b.items_filled + Len(slice)],
          panicked |-> FALSE]

\* mutant: the copy starts at the initialization cursor
append_at_initialized(b, slice, debug) ==
    IF ~(Len(slice) <= Len(b.initializer.inner) - b.items_filled)
    THEN [buffer |-> b, panicked |-> TRUE]
    ELSE LET at == b.initializer.items_initialized
             filled == b.items_filled + Len(slice)
         IN  [buffer |->
                 [initializer |->
                     [inner |-> [i \in 1 .. Len(b.initializer.inner) |->
                                    IF i > at /\ i <= at + Len(slice)
                                    THEN slice[i - at]
                                    ELSE b.initializer.inner[i]],
                      items_initialized |-> max(filled, at)],
                  items_filled |-> filled],
              panicked |-> FALSE]

\* mutant: a slice longer than the unfilled part makes the container grow
append_growing(b, slice, debug) ==
    LET fits == Len(slice) <= Len(b.initializer.inner) - b.items_filled
        filled == b.items_filled + Len(slice)
        inner == IF fits
                 THEN [i \in 1 .. Len(b.initializer.inner) |->
                          IF i > b.items_filled /\ i <= filled
                          THEN slice[i - b.items_filled]
                          ELSE b.initializer.inner[i]]
                 ELSE SubSeq(b.initializer.inner, 1, b.items_filled) \o slice
    IN  [buffer |-> [initializer |->
                         [inner |-> inner,
                          items_initialized |-> max(filled, b.initializer.items_initialized)],
                     items_filled |-> filled],
         panicked |-> FALSE]

\* unfilled_part_mut() with its debug_assert_validity, the bounds-checked
\* copy into the unfilled part, then assume_init (where
\* unfilled_part_mut_undefined, this is what the arithmetic gives, the copy
\* going to no slot of the container)
append(b, slice, debug) ==
    IF debug /\ ~validity(b)
    THEN [buffer |-> b, panicked |-> TRUE]
    ELSE IF ~(Len(slice) <= unfilled_part_mut_len(b))
    THEN [buffer |-> b, panicked |-> TRUE]
    ELSE LET copied == [i \in 1 .. Len(b.initializer.inner) |->
                           IF i > b.items_filled /\ i <= b.items_filled + Len(slice)
                           THEN slice[i - b.items_filled]
                           ELSE b.initializer.inner[i]]
             wb == [initializer |-> [inner |-> copied,
                                     items_initialized |-> b.initializer.items_initialized],
                    items_filled |-> b.items_filled]
         IN  assume_init(wb, Len(slice), debug)

\* mutant: the assertion is left out
advance_unchecked(b, count) ==
    [buffer |-> [initializer |-> b.initializer,
                 items_filled |-> wrapping_add(b.items_filled, count)],
     panicked |-> FALSE]

\* mutant: a count beyond the initialized part is cut down to it
advance_truncating(b, count) ==
    LET room == wrapping_sub(b.initializer.items_initialized, b.items_filled)
        n == IF count <= room THEN count ELSE room
    IN  [buffer |-> [initializer |-> b.initializer,
                     items_filled |-> wrapping_add(b.items_filled, n)],
         panicked |-> FALSE]

\* mutant: the initialization cursor moves with the filled one
advance_both(b, count) ==
    IF wrapping_sub(b.initializer.items_initialized, b.items_filled) >= count
    THEN [buffer |-> [initializer |->
                         [inner |-> b.initializer.inner,
                          items_initialized |->
                              wrapping_add(b.initializer.items_initialized, count)],
                      items_filled |-> wrapping_add(b.items_filled, count)],
          panicked |-> FALSE]
    ELSE [buffer |-> b, panicked |-> TRUE]

advance(b, count) ==
    IF wrapping_sub(b.initializer.items_initialized, b.items_filled) >= count
    THEN [buffer |-> [initializer |-> b.initializer,
                      items_filled |-> wrapping_add(b.items_filled, count)],
          panicked |-> FALSE]
    ELSE [buffer |-> b, panicked |-> TRUE]

\* mutant: the assignment goes the other way
advance_to_init_part_swapped(b) ==
    [initializer |-> [inner |-> b.initializer.inner, items_initialized |-> b.items_filled],
     items_filled |-> b.items_filled]

\* mutant: the filled cursor becomes the length of the unfilled initialized part
advance_to_init_part_rewinding(b) ==
    [initializer |-> b.initializer,
     items_filled |-> wrapping_sub(b.initializer.items_initialized, b.items_filled)]

\* mutant: the filled cursor moves one item towards the initialized cursor
advance_to_init_part_stepping(b) ==
    [initializer |-> b.initializer,
     items_filled |-> IF b.items_filled < b.initializer.items_initialized
                      THEN b.items_filled + 1 ELSE b.items_filled]

advance_to_init_part(b) ==
    [initializer |-> b.initializer, items_filled |-> b.initializer.items_initialized]

\* mutant: the first slot of the slice is skipped
fill_uninit_slice_skip_first(inner, from, item) ==
    [i \in 1 .. Len(inner) |-> IF i > from + 1 THEN item ELSE inner[i]]

\* slice.fill(MaybeUninit::new(item)) over a slice starting at slot `from`
fill_uninit_slice(inner, from, item) ==
    [i \in 1 .. Len(inner) |-> IF i > from THEN item ELSE inner[i]]

\* mutant: only the uninitialized part is filled
fill_by_repeating_uninit_only(b, item, debug) ==
    [buffer |->
         assume_init_all(
             [initializer |-> [inner |-> fill_uninit_slice(b.initializer.inner,
                                                           b.initializer.items_initialized,
                                                           item),
                               items_initialized |-> b.initializer.items_initialized],
              items_filled |-> b.items_filled]),
     panicked |-> FALSE]

\* unfilled_part_mut() with its debug_assert_validity, fill_uninit_slice over
\* it, then assume_init_all (where unfilled_part_mut_undefined, this is what
\* the arithmetic gives, the fill going to no slot of the container)
fill_by_repeating(b, item, debug) ==
    IF debug /\ ~validity(b)
    THEN [buffer |-> b, panicked |-> TRUE]
    ELSE [buffer |->
              assume_init_all(
                  [initializer |->
                       [inner |-> fill_uninit_slice(b.initializer.inner, b.items_filled, item),
                        items_initialized |-> b.initializer.items_initialized],
                   items_filled |-> b.items_filled]),
          panicked |-> FALSE]

fill_by_zeroing(b, debug) == fill_by_repeating(b, ZeroByte, debug)

\* mutant: the offset is counted from the end of the filled part
write_filled_part_from_end(b, i, item) ==
    [initializer |-> [inner |-> [b.initializer.inner EXCEPT ![b.items_filled - i] = item],
                      items_initialized |-> b.initializer.items_initialized],
     items_filled |-> b.items_filled]

\* buffer.filled_part_mut()[i] = item: the slice starts at the first slot
write_filled_part(b, i, item) ==
    [initializer |-> [inner |-> [b.initializer.inner EXCEPT ![i + 1] = item],
                      items_initialized |-> b.initializer.items_initialized],
     items_filled |-> b.items_filled]

\* buffer.unfilled_init_part_mut()[i] = item: the slice starts at the slot
\* items_filled
write_unfilled_init_part(b, i, item) ==
    [initializer |->
        [inner |-> [b.initializer.inner EXCEPT ![b.items_filled + i + 1] = item],
         items_initialized |-> b.initializer.items_initialized],
     items_filled |-> b.items_filled]

\* unfilled_part_mut()[i] = slot: the slice starts at the slot items_filled
write_unfilled_part_mut(b, i, slot) ==
    [initializer |->
        [inner |-> [b.initializer.inner EXCEPT ![b.items_filled + i + 1] = slot],
         items_initialized |-> b.initializer.items_initialized],
     items_filled |-> b.items_filled]

\* buffer.unfilled_parts_mut().1[i] = slot: the slice starts at the slot
\* items_initialized
write_unfilled_uninit_part(b, i, slot) ==
    [initializer |->
        [inner |-> [b.initializer.inner EXCEPT ![b.initializer.items_initialized + i + 1] = slot],
         items_initialized |-> b.initializer.items_initialized],
     items_filled |-> b.items_filled]

\* the unfilled_init_part and unfilled_uninit_part of all_parts()
unfilled_parts(b) ==
    <<all_parts(b).unfilled_init_part, all_parts(b).unfilled_uninit_part>>

\* the unfilled_init_part and unfilled_uninit_part of all_parts_mut()
unfilled_parts_mut(b) ==
    <<all_parts_mut(b).unfilled_init_part, all_parts_mut(b).unfilled_uninit_part>>

\* ------------------------------------------------------------------------
\* BufferRef { inner: &mut Buffer }: each method calls one of the Buffer
\* behind it, written here on that Buffer
\* ------------------------------------------------------------------------

BufferRef_items_filled(b) == items_filled_of(b)

\* BufferRef { inner: self.inner }
BufferRef_by_ref(b) == b

BufferRef_remaining(b, debug) == remaining(b, debug)

BufferRef_unfilled_parts(b) == unfilled_parts_mut(b)

\* mutant: forwards to Buffer::advance
BufferRef_advance_as_advance(b, count, debug) == advance(b, count)

\* mutant: only the filled cursor is advanced
BufferRef_advance_filled_only(b, count, debug) ==
    assume_init_no_max(b, count, debug)

\* unsafe
BufferRef_advance(b, count, debug) == assume_init(b, count, debug)

\* unsafe
BufferRef_advance_all(b) == assume_init_all(b)

BufferRef_fill_by_repeating(b, item, debug) == fill_by_repeating(b, item, debug)

BufferRef_append(b, slice, debug) == append(b, slice, debug)

BufferRef_fill_by_zeroing(b, debug) == fill_by_zeroing(b, debug)

\* ------------------------------------------------------------------------
\* impl MyRead for &[u8] (the example of the crate documentation)
\* ------------------------------------------------------------------------

min(a, b) == IF a <= b THEN a ELSE b

\* mutant: the whole source is appended
MyRead_read_whole(b, source, debug) == BufferRef_append(b, source, debug)

\* let min = std::cmp::min(self.len(), buffer.remaining());
\* buffer.append(&self[..min]);
MyRead_read(b, source, debug) ==
    LET left == BufferRef_remaining(b, debug)
    IN  IF left.panicked
        THEN [buffer |-> b, panicked |-> TRUE]
        ELSE BufferRef_append(b, SubSeq(source, 1, min(Len(source), left.value)), debug)

\* ------------------------------------------------------------------------
\* State
\* ------------------------------------------------------------------------

VARIABLES
    initializer,        \* Buffer.initializer: [inner, items_initialized]
    items_filled,       \* Buffer.items_filled
    debug_assertions,   \* the build profile: are debug_assert!s compiled in
    stack,              \* the frames of a running revert_to_start call
    twin,               \* a second Buffer run in step with this one, by the
                        \* same calls: [initializer, items_filled, outcome]
    holder,             \* what the caller holds: the "Buffer", the "Tracker"
                        \* taken out of it, or the "AssertInit" container
    last,               \* the last call: [op, count, item, outcome, held, pre]
    unsafe_used,        \* has an unsafe function been called on this buffer
    only_appends,       \* built by Buffer::uninit and changed by append alone
    appended,           \* the items of the successful appends, in call order
    loop                \* the fill loop that runs, if one does: [start, appends]

vars == <<initializer, items_filled, debug_assertions, stack, twin, holder, last,
          unsafe_used, only_appends, appended, loop>>

\* no fill loop runs
NoLoop == [start |-> 0, appends |-> -1]

\* the Buffer the variables hold
Self == [initializer |-> initializer, items_filled |-> items_filled]

Idle == stack = <<>> /\ holder = "Buffer"

\* the Tracker can be reached: through initializer_mut(), or held itself
TrackerHeld == stack = <<>> /\ holder \in {"Buffer", "Tracker"}

\* the containers a Buffer is built over
UninitContainers == {Repeat(Uninit, n) : n \in 0 .. MaxCap}
InitContainers == SeqsOf(Items, MaxCap)

CalledWith(op, count, item, outcome) ==
    [op |-> op, count |-> count, item |-> item, outcome |-> outcome,
     held |-> holder, pre |-> Self]

Called(op, count, outcome) == CalledWith(op, count, Uninit, outcome)

Outcome(panicked) == IF panicked THEN "panic" ELSE "ok"

\* no second Buffer is run
NoTwin == [initializer |-> BufferInitializer_uninit(<<>>), items_filled |-> 0,
           outcome |-> "ok"]

Constructed(b, op, debug) ==
    /\ initializer = b.initializer
    /\ items_filled = b.items_filled
    /\ debug_assertions = debug
    /\ stack = <<>>
    /\ twin = NoTwin
    /\ holder = "Buffer"
    /\ last = [op |-> op, count |-> 0, item |-> Uninit, outcome |-> "ok",
               held |-> "Buffer", pre |-> b]
    /\ unsafe_used = FALSE
    /\ only_appends = (op = "uninit")
    /\ appended = <<>>
    /\ loop = NoLoop

\* Buffer::uninit over a container no slot of which was written, or
\* Buffer::new over an initialized container, in a build with debug
\* assertions (the profile the tests run in)
Init ==
    \/ \E c \in UninitContainers : Constructed(Buffer_uninit(c), "uninit", TRUE)
    \/ \E c \in InitContainers : Constructed(Buffer_new(c), "new", TRUE)

\* the state after a call that ran to its end (returned or panicked)
Left(b, h, called, isUnsafe, isAppend) ==
    /\ initializer' = b.initializer
    /\ items_filled' = b.items_filled
    /\ holder' = h
    /\ last' = called
    /\ unsafe_used' = (unsafe_used \/ isUnsafe)
    /\ only_appends' = (only_appends /\ isAppend)
    /\ isAppend \/ appended' = <<>>
    /\ loop' = IF loop # NoLoop /\ isAppend /\ called.outcome = "ok"
               THEN [loop EXCEPT !.appends = @ + 1]
               ELSE loop
    /\ UNCHANGED <<debug_assertions, stack, twin>>

Returned(b, op, count, panicked, isUnsafe, isAppend) ==
    Left(b, holder, Called(op, count, Outcome(panicked)), isUnsafe, isAppend)

\* the same, for a call that was handed an item
ReturnedWith(b, op, count, item, panicked, isUnsafe, isAppend) ==
    Left(b, holder, CalledWith(op, count, item, Outcome(panicked)), isUnsafe, isAppend)

\* ------------------------------------------------------------------------
\* Operations
\* ------------------------------------------------------------------------

BufferAppend(slice) ==
    /\ Idle
    /\ LET r == append(Self, slice, debug_assertions)
       IN  /\ Returned(r.buffer, "append", Len(slice), r.panicked, FALSE, TRUE)
           /\ appended' = IF ~only_appends THEN <<>>
                          ELSE IF r.panicked THEN appended ELSE appended \o slice

BufferAdvance(count) ==
    /\ Idle
    /\ LET r == advance(Self, count)
       IN  Returned(r.buffer, "advance", count, r.panicked, FALSE, FALSE)

BufferAdvanceToInitPart ==
    /\ Idle
    /\ Returned(advance_to_init_part(Self), "advance_to_init_part", 0, FALSE, FALSE, TRUE)
    /\ appended' = appended
    /\ loop' = loop

\* unsafe, called within its contract: count <= remaining()
BufferAssumeInit(count) ==
    /\ Idle
    /\ ~remaining(Self, debug_assertions).panicked
    /\ count <= remaining(Self, debug_assertions).value
    /\ LET r == assume_init(Self, count, debug_assertions)
       IN  Returned(r.buffer, "assume_init", count, r.panicked, TRUE, FALSE)

BufferAssumeInitAll ==
    /\ Idle
    /\ Returned(assume_init_all(Self), "assume_init_all", 0, FALSE, TRUE, FALSE)

BufferFillByRepeating(item) ==
    /\ Idle
    /\ LET r == fill_by_repeating(Self, item, debug_assertions)
       IN  ReturnedWith(r.buffer, "fill_by_repeating", 0, item, r.panicked, FALSE, FALSE)

BufferFillByZeroing ==
    /\ Idle
    /\ LET r == fill_by_zeroing(Self, debug_assertions)
       IN  ReturnedWith(r.buffer, "fill_by_zeroing", 0, ZeroByte, r.panicked, FALSE, FALSE)

\* buffer.initializer_mut().partially_fill_uninit_part(count, value)
PartiallyFillUninitPart(count, value) ==
    /\ TrackerHeld
    /\ LET r == partially_fill_uninit_part(initializer, count, value)
       IN  ReturnedWith([initializer |-> r.initializer, items_filled |-> items_filled],
                        "partially_fill_uninit_part", count, value, r.panicked,
                        FALSE, FALSE)

PartiallyZeroUninitPart(count) ==
    /\ TrackerHeld
    /\ LET r == partially_zero_uninit_part(initializer, count)
       IN  ReturnedWith([initializer |-> r.initializer, items_filled |-> items_filled],
                        "partially_zero_uninit_part", count, ZeroByte, r.panicked,
                        FALSE, FALSE)

\* unsafe: tracker.advance_to_end(), as Buffer::from_slice_mut calls it
TrackerAdvanceToEnd ==
    /\ TrackerHeld
    /\ Returned([initializer |-> advance_to_end(initializer), items_filled |-> items_filled],
                "advance_to_end", 0, FALSE, TRUE, FALSE)

\* buffer.into_initializer().try_into_init(), or tracker.try_into_init() on a
\* Tracker that came back: the caller holds the AssertInit container on
\* success and the Tracker on failure (items_filled stays as the value
\* into_raw_parts would have given)
TryIntoInit ==
    /\ TrackerHeld
    /\ LET r == try_into_init(into_initializer(Self))
       IN  Left([initializer |->
                     IF r.ok
                     THEN [inner |-> r.init.inner,
                           items_initialized |-> r.initializer.items_initialized]
                     ELSE r.initializer,
                 items_filled |-> items_filled],
                IF r.ok THEN "AssertInit" ELSE "Tracker",
                Called("try_into_init", 0, IF r.ok THEN "ok" ELSE "err"),
                FALSE, TRUE)
    /\ appended' = appended
    /\ loop' = loop

\* Buffer::from_initializer(buffer.into_initializer()), or
\* Buffer::from_initializer(tracker) on a Tracker that came back
FromInitializer ==
    /\ TrackerHeld
    /\ Left(from_initializer(into_initializer(Self)), "Buffer",
            Called("from_initializer", 0, "ok"), FALSE, FALSE)

\* Buffer::revert_to_start is `self.by_ref().revert_to_start()`, and
\* BufferRef::revert_to_start is `self.inner.revert_to_start()`: each calls
\* the other, and neither assigns items_filled
RevertToStart(entry) ==
    /\ Idle
    /\ stack' = <<entry>>
    /\ last' = Called("revert_to_start", 0, "running")
    /\ only_appends' = FALSE
    /\ appended' = <<>>
    /\ loop' = loop
    /\ UNCHANGED <<initializer, items_filled, debug_assertions, twin, holder, unsafe_used>>

Buffer_revert_to_start ==
    /\ stack # <<>>
    /\ Len(stack) < MaxStack
    /\ stack[Len(stack)] = "Buffer::revert_to_start"
    /\ stack' = Append(stack, "BufferRef::revert_to_start")
    /\ UNCHANGED <<initializer, items_filled, debug_assertions, twin, holder, last,
                   unsafe_used, only_appends, appended, loop>>

BufferRef_revert_to_start ==
    /\ stack # <<>>
    /\ Len(stack) < MaxStack
    /\ stack[Len(stack)] = "BufferRef::revert_to_start"
    /\ stack' = Append(stack, "Buffer::revert_to_start")
    /\ UNCHANGED <<initializer, items_filled, debug_assertions, twin, holder, last,
                   unsafe_used, only_appends, appended, loop>>

\* no frame is left for the next call: the process is killed, and nothing
\* runs after it
StackOverflow ==
    /\ Len(stack) = MaxStack
    /\ last.outcome = "running"
    /\ last' = [last EXCEPT !.outcome = "stack overflow"]
    /\ UNCHANGED <<initializer, items_filled, debug_assertions, stack, twin, holder,
                   unsafe_used, only_appends, appended, loop>>

\* buffer.filled_part_mut()[i] = item
WriteFilledPart(i, item) ==
    /\ Idle
    /\ i < Len(filled_part(Self))
    /\ ReturnedWith(write_filled_part(Self, i, item), "filled_part_mut", i, item,
                    FALSE, FALSE, FALSE)

\* buffer.unfilled_init_part_mut()[i] = item
WriteUnfilledInitPart(i, item) ==
    /\ Idle
    /\ i < Len(unfilled_init_part(Self))
    /\ ReturnedWith(write_unfilled_init_part(Self, i, item), "unfilled_init_part_mut",
                    i, item, FALSE, FALSE, FALSE)

\* buffer.unfilled_parts_mut().1[i] = slot (the same slice as
\* all_parts_mut().unfilled_uninit_part and unfilled_uninit_part_mut()), the
\* slot being MaybeUninit::new(item) or MaybeUninit::uninit()
WriteUnfilledUninitPart(i, slot) ==
    /\ Idle
    /\ i < Len(unfilled_parts_mut(Self)[2])
    /\ ReturnedWith(write_unfilled_uninit_part(Self, i, slot), "unfilled_parts_mut",
                    i, slot, FALSE, FALSE, FALSE)

\* unsafe, called within its contract (the slice is never used to
\* deinitialize the buffer): buffer.unfilled_part_mut()[i] = slot, the same
\* slice as filled_unfilled_parts_mut().1; an initialized slot gets an item
WriteUnfilledPartMut(i, slot) ==
    /\ Idle
    /\ i < unfilled_part_mut_len(Self)
    /\ items_filled + i < initializer.items_initialized => slot \in Items
    /\ IF debug_assertions /\ ~validity(Self)
       THEN ReturnedWith(Self, "unfilled_part_mut", i, slot, TRUE, TRUE, FALSE)
       ELSE ReturnedWith(write_unfilled_part_mut(Self, i, slot), "unfilled_part_mut",
                         i, slot, FALSE, TRUE, FALSE)

Next ==
    \/ \E slice \in Slices : BufferAppend(slice)
    \/ \E count \in Counts : BufferAdvance(count)
    \/ BufferAdvanceToInitPart
    \/ \E count \in Counts : BufferAssumeInit(count)
    \/ BufferAssumeInitAll
    \/ \E item \in Items : BufferFillByRepeating(item)
    \/ BufferFillByZeroing
    \/ \E count \in Counts, value \in Items : PartiallyFillUninitPart(count, value)
    \/ \E count \in Counts : PartiallyZeroUninitPart(count)
    \/ TrackerAdvanceToEnd
    \/ TryIntoInit
    \/ FromInitializer
    \/ \E entry \in {"Buffer::revert_to_start", "BufferRef::revert_to_start"} :
           RevertToStart(entry)
    \/ Buffer_revert_to_start
    \/ BufferRef_revert_to_start
    \/ StackOverflow
    \/ \E i \in 0 .. (MaxCap - 1), item \in Items : WriteFilledPart(i, item)
    \/ \E i \in 0 .. (MaxCap - 1), item \in Items : WriteUnfilledInitPart(i, item)
    \/ \E i \in 0 .. (MaxCap - 1), slot \in Slots : WriteUnfilledUninitPart(i, slot)
    \/ \E i \in 0 .. (MaxCap - 1), slot \in Slots : WriteUnfilledPartMut(i, slot)

Spec == Init /\ [][Next]_vars

\* ------------------------------------------------------------------------
\* Properties
\* ------------------------------------------------------------------------

Range(seq) == {seq[i] : i \in 1 .. Len(seq)}

\* C1: in every state reached through the constructors and the operations
\* used within their contracts, 0 <= items_filled <= items_initialized <=
\* capacity.
C1_CursorsOrdered ==
    /\ 0 <= items_filled
    /\ items_filled <= initializer.items_initialized
    /\ initializer.items_initialized <= capacity(Self)

\* an unsafe call was made and all three cursors are apart
C1_Witness ==
    /\ unsafe_used
    /\ 0 < items_filled
    /\ items_filled < initializer.items_initialized
    /\ initializer.items_initialized < capacity(Self)

\* C2: as long as only safe operations were called, every slot below
\* items_initialized was written, so filled_part(), unfilled_init_part() and
\* the Tracker's init_part() hold no never-written slot.
C2_InitializedSlotsWritten ==
    ~unsafe_used =>
        /\ \A i \in 1 .. initializer.items_initialized : initializer.inner[i] # Uninit
        /\ Uninit \notin Range(filled_part(Self))
        /\ Uninit \notin Range(unfilled_init_part(Self))
        /\ Uninit \notin Range(init_part(initializer))

\* a buffer built by Buffer::uninit, filled by safe calls only, with a
\* filled part, an unfilled initialized part and a never-written rest
C2_Witness ==
    /\ ~unsafe_used
    /\ 0 < items_filled
    /\ items_filled < initializer.items_initialized
    /\ initializer.items_initialized < capacity(Self)
    /\ initializer.inner[capacity(Self)] = Uninit

\* C3: a revert_to_start() call, on the Buffer or on a BufferRef, ends with
\* items_filled = 0 and with items_initialized, the capacity and the slots as
\* they were, so that unfilled_init_part() is all that was initialized.
C3_RevertToStartResetsFilled ==
    (last.op = "revert_to_start" /\ last.outcome # "running") =>
        /\ items_filled = 0
        /\ initializer = last.pre.initializer
        /\ unfilled_init_part(Self) = init_part(last.pre.initializer)

\* C4 as claimed: Buffer::new(init) over n items has both counters at n.
C4_NewSetsBothCountersToCapacity ==
    last.op = "new" =>
        /\ items_filled = capacity(Self)
        /\ initializer.items_initialized = capacity(Self)

\* C4 as amended: Buffer::new(init) over n items has items_filled = 0 and
\* items_initialized = n: all of it is unfilled and initialized.
C4_NewIsInitializedAndUnfilled ==
    last.op = "new" =>
        /\ items_filled = 0
        /\ initializer.items_initialized = capacity(Self)
        /\ remaining(Self, debug_assertions).value = capacity(Self)
        /\ unfilled_init_part(Self) = initializer.inner

C4_Witness == last.op = "new" /\ capacity(Self) = MaxCap

\* C5: Buffer::uninit over n slots starts at (0, 0): is_empty(), not
\* is_full() when n > 0, remaining() = n, filled_part and unfilled_init_part
\* empty, unfilled_part and unfilled_uninit_part of length n.
C5_UninitStartsEmpty ==
    last.op = "uninit" =>
        /\ items_filled = 0
        /\ initializer.items_initialized = 0
        /\ is_empty(Self)
        /\ (capacity(Self) > 0 => ~is_full(Self))
        /\ remaining(Self, debug_assertions).value = capacity(Self)
        /\ filled_part(Self) = <<>>
        /\ unfilled_init_part(Self) = <<>>
        /\ Len(unfilled_part(Self)) = capacity(Self)
        /\ Len(unfilled_uninit_part(Self)) = capacity(Self)

C5_Witness == last.op = "uninit" /\ capacity(Self) = MaxCap

\* C6: append(slice) with slice.len() > remaining() panics and leaves both
\* cursors and every slot as they were.
C6_AppendTooLongChangesNothing ==
    (last.op = "append" /\ last.count > remaining(last.pre, debug_assertions).value) =>
        /\ last.outcome = "panic"
        /\ Self = last.pre

\* a slice that an empty buffer could take is refused by a partly filled one
C6_Witness ==
    /\ last.op = "append"
    /\ last.outcome = "panic"
    /\ last.count <= capacity(Self)
    /\ 0 < items_filled
    /\ items_filled < capacity(Self)

\* C7: after Buffer::uninit and appends alone, filled_part() is the
\* concatenation of the appended slices in call order, items_filled() is its
\* length t and remaining() is n - t.
C7_AppendsConcatenate ==
    only_appends =>
        /\ filled_part(Self) = appended
        /\ items_filled = Len(appended)
        /\ remaining(Self, debug_assertions).value = capacity(Self) - Len(appended)

\* a second non-empty append
C7_Witness ==
    /\ only_appends
    /\ last.op = "append"
    /\ last.outcome = "ok"
    /\ last.count > 0
    /\ last.pre.items_filled > 0

\* C8 as claimed: a successful append advances both cursors by slice.len().
C8_AppendAdvancesBothByLen ==
    (last.op = "append" /\ last.count <= remaining(last.pre, debug_assertions).value) =>
        /\ last.outcome = "ok"
        /\ items_filled = last.pre.items_filled + last.count
        /\ initializer.items_initialized =
               last.pre.initializer.items_initialized + last.count

\* C8 as amended: a successful append advances items_filled by slice.len()
\* and raises items_initialized to max(items_initialized, items_filled +
\* slice.len()).
C8_AppendAdvancesFilledRaisesInitialized ==
    (last.op = "append" /\ last.count <= remaining(last.pre, debug_assertions).value) =>
        /\ last.outcome = "ok"
        /\ items_filled = last.pre.items_filled + last.count
        /\ initializer.items_initialized =
               max(last.pre.initializer.items_initialized,
                   last.pre.items_filled + last.count)

\* an append into initialized and unfilled slots that does not reach the
\* initialization cursor
C8_Witness ==
    /\ last.op = "append"
    /\ last.outcome = "ok"
    /\ last.count > 0
    /\ items_filled < initializer.items_initialized

\* C9: advance(count) with count <= items_initialized - items_filled adds
\* count to items_filled and leaves items_initialized, the capacity and every
\* slot as they were.
C9_AdvanceMovesFilledOnly ==
    (/\ last.op = "advance"
     /\ last.count <= last.pre.initializer.items_initialized - last.pre.items_filled) =>
        /\ last.outcome = "ok"
        /\ items_filled = last.pre.items_filled + last.count
        /\ initializer = last.pre.initializer

\* an advance over a part of the unfilled initialized slots
C9_Witness ==
    /\ last.op = "advance"
    /\ last.outcome = "ok"
    /\ last.count > 0
    /\ items_filled < initializer.items_initialized

C11_AssumeInitAdvancesFilledRaisesInitialized ==
    (/\ last.op = "assume_init"
     /\ last.pre.items_filled + last.count <= capacity(last.pre)) =>
        /\ last.outcome = "ok"
        /\ items_filled = last.pre.items_filled + last.count
        /\ initializer.items_initialized =
               max(last.pre.initializer.items_initialized,
                   last.pre.items_filled + last.count)
        /\ initializer.inner = last.pre.initializer.inner

\* an assume_init that carries the filled cursor past the initialized part
C11_Witness ==
    /\ last.op = "assume_init"
    /\ last.outcome = "ok"
    /\ last.pre.items_filled + last.count > last.pre.initializer.items_initialized
    /\ last.pre.items_filled + last.count <= capacity(last.pre)

C15_FullByAppendsRoundTrips ==
    (/\ last.op = "try_into_init"
     /\ only_appends
     /\ is_full(last.pre)) =>
        /\ last.outcome = "ok"
        /\ holder = "AssertInit"
        /\ Len(appended) = capacity(last.pre)
        /\ array_from_assert_init(AssertInit_new_unchecked(initializer.inner)) = appended

\* a container of two different items or more, appended and extracted
C15_Witness ==
    /\ last.op = "try_into_init"
    /\ only_appends
    /\ is_full(last.pre)
    /\ holder = "AssertInit"
    /\ Len(appended) >= 2
    /\ appended[1] # appended[2]

\* C16: try_into_init() succeeds exactly when items_initialized is the
\* capacity; otherwise it fails and hands the same Tracker back, cursor and
\* slots as they were, so that the caller goes on initializing and a later
\* try_into_init() succeeds.
C16_TryIntoInitIffFullyInitialized ==
    (last.op = "try_into_init") =>
        /\ (last.outcome = "ok") <=>
               (last.pre.initializer.items_initialized = capacity(last.pre))
        /\ last.outcome \in {"ok", "err"}
        /\ last.outcome = "ok" =>
               /\ holder = "AssertInit"
               /\ initializer.inner = last.pre.initializer.inner
        /\ last.outcome = "err" =>
               /\ holder = "Tracker"
               /\ initializer = last.pre.initializer

\* a try_into_init() that succeeds on a Tracker an earlier one handed back
C16_Witness ==
    /\ last.op = "try_into_init"
    /\ last.outcome = "ok"
    /\ last.held = "Tracker"

\* C17: no operation of the Buffer, the BufferRef or the Tracker (append,
\* advance, advance_to_init_part, assume_init, assume_init_all,
\* fill_by_repeating, fill_by_zeroing, revert_to_start,
\* partially_fill_uninit_part, partially_zero_uninit_part, advance_to_end)
\* leaves items_initialized below its value before the call.
C17_InitializedNeverDecreases ==
    (last.op \in {"append", "advance", "advance_to_init_part", "assume_init",
                  "assume_init_all", "fill_by_repeating", "fill_by_zeroing",
                  "revert_to_start", "partially_fill_uninit_part",
                  "partially_zero_uninit_part", "advance_to_end"}) =>
        initializer.items_initialized >= last.pre.initializer.items_initialized

\* advance_to_init_part() with initialized slots ahead of the filled cursor
C17_Witness ==
    /\ last.op = "advance_to_init_part"
    /\ last.pre.items_filled < last.pre.initializer.items_initialized
    /\ initializer.items_initialized = last.pre.initializer.items_initialized

C20_PartiallyFillWritesExactlyCount ==
    (last.op = "partially_fill_uninit_part") =>
        LET pre == last.pre.initializer
        IN  IF last.count <= initializer_remaining(pre)
            THEN /\ last.outcome = "ok"
                 /\ initializer.items_initialized = pre.items_initialized + last.count
                 /\ Len(initializer.inner) = Len(pre.inner)
                 /\ \A i \in 1 .. Len(pre.inner) :
                       initializer.inner[i] =
                           IF /\ i > pre.items_initialized
                              /\ i <= pre.items_initialized + last.count
                           THEN last.item
                           ELSE pre.inner[i]
            ELSE last.outcome # "ok"

\* a partial fill with initialized slots before it and uninitialized ones
\* left after it
C20_Witness ==
    /\ last.op = "partially_fill_uninit_part"
    /\ last.outcome = "ok"
    /\ last.count > 0
    /\ last.pre.initializer.items_initialized > 0
    /\ initializer.items_initialized < capacity(Self)
    /\ last.item = FillByte

\* ------------------------------------------------------------------------
\* tests::basic_buffer_ops: a 32-byte uninitialized buffer and the slice
\* b"I am a really nice slice!"

ScenarioCapacity == 32

NiceSlice == <<73, 32, 97, 109, 32, 97, 32, 114, 101, 97, 108, 108, 121, 32,
               110, 105, 99, 101, 32, 115, 108, 105, 99, 101, 33>>

\* let mut buffer = Buffer::uninit([MaybeUninit::<u8>::uninit(); 32])
InitScenario ==
    Constructed(Buffer_uninit(Repeat(Uninit, ScenarioCapacity)), "uninit", TRUE)

\* buffer.append(src), src being the slice or a part of it
ScenarioAppend(slice) ==
    /\ is_empty(Self)
    /\ BufferAppend(slice)

\* initializer.partially_fill_uninit_part(3, 0xFF_u8)
ScenarioPartiallyFill ==
    /\ last.op = "append"
    /\ PartiallyFillUninitPart(3, FillByte)

\* initializer.partially_zero_uninit_part(1)
ScenarioPartiallyZero ==
    /\ last.op = "partially_fill_uninit_part"
    /\ PartiallyZeroUninitPart(1)

NextScenario ==
    \/ \E i \in 1 .. Len(NiceSlice), j \in 1 .. Len(NiceSlice) :
           i <= j /\ ScenarioAppend(SubSeq(NiceSlice, i, j))
    \/ ScenarioPartiallyFill
    \/ ScenarioPartiallyZero

SpecScenario == InitScenario /\ [][NextScenario]_vars

\* C19, as stated: on an uninitialized buffer of capacity 32, appending
\* "I am a really nice slice!" gives items_filled() == 26 and remaining() == 6.
C19_NiceSliceFills26 ==
    (/\ last.op = "append"
     /\ capacity(Self) = ScenarioCapacity
     /\ is_empty(last.pre)
     /\ appended = NiceSlice) =>
        /\ items_filled_of(Self) = 26
        /\ remaining(Self, debug_assertions).value = 6

\* C19, amended: the slice has 25 bytes, so the append gives
\* items_filled() == 25 and remaining() == 7.
C19_NiceSliceFills25 ==
    (/\ last.op = "append"
     /\ capacity(Self) = ScenarioCapacity
     /\ is_empty(last.pre)
     /\ appended = NiceSlice) =>
        /\ items_filled_of(Self) = 25
        /\ remaining(Self, debug_assertions).value = 7
        /\ filled_part(Self) = NiceSlice

\* the whole slice was appended to the empty 32-byte buffer
C19_Witness ==
    /\ last.op = "append"
    /\ last.outcome = "ok"
    /\ capacity(Self) = ScenarioCapacity
    /\ is_empty(last.pre)
    /\ appended = NiceSlice


C27_AdvanceToInitPartIsIdempotent ==
    (last.op = "advance_to_init_part") =>
        /\ last.outcome = "ok"
        /\ items_filled = last.pre.initializer.items_initialized
        /\ initializer = last.pre.initializer
        /\ advance_to_init_part(Self) = Self
        /\ advance_to_init_part(advance_to_init_part(last.pre)) =
               advance_to_init_part(last.pre)

\* advance_to_init_part() over two unfilled initialized slots or more
C27_Witness ==
    /\ last.op = "advance_to_init_part"
    /\ last.pre.items_filled + 2 <= last.pre.initializer.items_initialized
    /\ items_filled = initializer.items_initialized

InitRef ==
    \E debug \in BOOLEAN :
        \/ \E c \in UninitContainers : Constructed(Buffer_uninit(c), "uninit", debug)
        \/ \E c \in InitContainers : Constructed(Buffer_new(c), "new", debug)

\* the slices handed to a BufferRef: every slice of up to two items, and the
\* longer ones of one repeated item
RefSlices ==
    SeqsOf(Items, 2) \cup {Repeat(x, n) : x \in Items, n \in 3 .. MaxSlice}

\* both cursors are among those that are followed
CursorsFollowed ==
    /\ items_filled <= MaxCursor
    /\ initializer.items_initialized <= MaxCursor

\* a BufferRef can be used: no call is running
RefIdle == Idle /\ CursorsFollowed

\* the Buffer a call that has no defined behaviour leaves, on the Buffer pre
\* with the arithmetic of the call giving after: the container is as the
\* arithmetic leaves it (written) or untouched, and each cursor has one of
\* the CursorFates
UndefinedOutcome(pre, after, written, initialized, filled) ==
    [initializer |->
         [inner |-> IF written THEN after.initializer.inner ELSE pre.initializer.inner,
          items_initialized |-> UndefinedCursor(pre.initializer.items_initialized,
                                                after.initializer.items_initialized,
                                                initialized)],
     items_filled |-> UndefinedCursor(pre.items_filled, after.items_filled, filled)]

UndefinedOutcomes(pre, after) ==
    {UndefinedOutcome(pre, after, written, initialized, filled) :
         written \in BOOLEAN, initialized \in CursorFates, filled \in CursorFates}

\* the end of a call that has no defined behaviour, b being what its
\* arithmetic gives (or the process is killed: the behaviour ends there)
UndefinedIn(b, op, count, item, isUnsafe) ==
    \E o \in UndefinedOutcomes(Self, b) :
        Left(o, holder, CalledWith(op, count, item, "undefined"), isUnsafe, FALSE)

\* the same, for a safe function
Undefined(b, op, count, item) == UndefinedIn(b, op, count, item, FALSE)

RefAppend(slice) ==
    /\ RefIdle
    /\ LET r == BufferRef_append(Self, slice, debug_assertions)
       IN  IF unfilled_part_mut_undefined(Self, debug_assertions)
           THEN Undefined(r.buffer, "BufferRef::append", Len(slice), slice)
           ELSE ReturnedWith(r.buffer, "BufferRef::append", Len(slice), slice, r.panicked,
                             FALSE, FALSE)

\* unsafe; every count, those beyond the capacity too
RefAdvance(count) ==
    /\ RefIdle
    /\ LET r == BufferRef_advance(Self, count, debug_assertions)
       IN  Returned(r.buffer, "BufferRef::advance", count, r.panicked, TRUE, FALSE)

\* unsafe
RefAdvanceAll ==
    /\ RefIdle
    /\ Returned(BufferRef_advance_all(Self), "BufferRef::advance_all", 0, FALSE, TRUE, FALSE)

RefFillByRepeating(item) ==
    /\ RefIdle
    /\ LET r == BufferRef_fill_by_repeating(Self, item, debug_assertions)
       IN  IF unfilled_part_mut_undefined(Self, debug_assertions)
           THEN Undefined(r.buffer, "BufferRef::fill_by_repeating", 0, item)
           ELSE ReturnedWith(r.buffer, "BufferRef::fill_by_repeating", 0, item, r.panicked,
                             FALSE, FALSE)

RefFillByZeroing ==
    /\ RefIdle
    /\ LET r == BufferRef_fill_by_zeroing(Self, debug_assertions)
       IN  IF unfilled_part_mut_undefined(Self, debug_assertions)
           THEN Undefined(r.buffer, "BufferRef::fill_by_zeroing", 0, ZeroByte)
           ELSE ReturnedWith(r.buffer, "BufferRef::fill_by_zeroing", 0, ZeroByte, r.panicked,
                             FALSE, FALSE)

\* a reborrow: another BufferRef to the same Buffer
RefByRef ==
    /\ RefIdle
    /\ last.op # "BufferRef::by_ref"
    /\ Returned(BufferRef_by_ref(Self), "BufferRef::by_ref", 0, FALSE, FALSE, FALSE)

RefRevertToStart ==
    /\ RefIdle
    /\ RevertToStart("BufferRef::revert_to_start")

\* source.read(buffer.by_ref())
RefRead(source) ==
    /\ RefIdle
    /\ LET r == MyRead_read(Self, source, debug_assertions)
           left == BufferRef_remaining(Self, debug_assertions)
           n == IF left.panicked THEN 0 ELSE min(Len(source), left.value)
       IN  IF unfilled_part_mut_undefined(Self, debug_assertions)
           THEN Undefined(r.buffer, "MyRead::read", n, source)
           ELSE ReturnedWith(r.buffer, "MyRead::read", n, source, r.panicked, FALSE, FALSE)

\* buffer.unfilled_parts().1[i] = slot, the slot being MaybeUninit::new(item)
\* or MaybeUninit::uninit(); all_parts_mut() behind it has
\* debug_assert_validity, and builds its slices from the cursors where that
\* is compiled out
RefWriteUnfilledUninit(i, slot) ==
    /\ RefIdle
    /\ validity(Self) => i < Len(BufferRef_unfilled_parts(Self)[2])
    /\ IF validity(Self)
       THEN ReturnedWith(write_unfilled_uninit_part(Self, i, slot),
                         "BufferRef::unfilled_parts", i, slot, FALSE, FALSE, FALSE)
       ELSE IF debug_assertions
       THEN ReturnedWith(Self, "BufferRef::unfilled_parts", i, slot, TRUE, FALSE, FALSE)
       ELSE IF initializer.items_initialized + i < capacity(Self)
       THEN Undefined(write_unfilled_uninit_part(Self, i, slot),
                      "BufferRef::unfilled_parts", i, slot)
       ELSE Undefined(Self, "BufferRef::unfilled_parts", i, slot)

\* unsafe: buffer.unfilled_mut()[i] = slot, any slot; unfilled_part_mut()
\* behind it has debug_assert_validity, and builds its slice from
\* items_filled where that is compiled out
RefWriteUnfilledMut(i, slot) ==
    /\ RefIdle
    /\ IF debug_assertions /\ ~validity(Self)
       THEN /\ i = 0
            /\ ReturnedWith(Self, "BufferRef::unfilled_mut", i, slot, TRUE, TRUE, FALSE)
       ELSE IF unfilled_part_mut_undefined(Self, debug_assertions)
       THEN UndefinedIn(Self, "BufferRef::unfilled_mut", i, slot, TRUE)
       ELSE /\ i < unfilled_part_mut_len(Self)
            /\ ReturnedWith(write_unfilled_part_mut(Self, i, slot),
                            "BufferRef::unfilled_mut", i, slot, FALSE, TRUE, FALSE)

\* the owner, between two loans: buffer.initializer_mut().partially_fill_uninit_part;
\* on a Tracker with items_initialized > capacity its debug-only consistency
\* check fails, and where that is compiled out the call fails or writes
\* outside the container
RefOwnerPartiallyFill(count, value) ==
    /\ RefIdle
    /\ IF initializer.items_initialized <= initializer_capacity(initializer)
       THEN PartiallyFillUninitPart(count, value)
       ELSE IF debug_assertions \/ count > initializer_remaining(initializer)
       THEN ReturnedWith(Self, "partially_fill_uninit_part", count, value, TRUE,
                         FALSE, FALSE)
       ELSE \/ ReturnedWith(Self, "partially_fill_uninit_part", count, value, TRUE,
                            FALSE, FALSE)
            \/ Undefined(Self, "partially_fill_uninit_part", count, value)

\* the owner calls Buffer::assume_init itself, with any count
RefOwnerAssumeInit(count) ==
    /\ RefIdle
    /\ LET r == assume_init(Self, count, debug_assertions)
       IN  Returned(r.buffer, "Buffer::assume_init", count, r.panicked, TRUE, FALSE)

NextRef ==
    \/ \E slice \in RefSlices : RefAppend(slice)
    \/ \E count \in Counts : RefAdvance(count)
    \/ RefAdvanceAll
    \/ \E item \in Items : RefFillByRepeating(item)
    \/ RefFillByZeroing
    \/ RefByRef
    \/ RefRevertToStart
    \/ Buffer_revert_to_start
    \/ BufferRef_revert_to_start
    \/ StackOverflow
    \/ \E source \in RefSlices : RefRead(source)
    \/ \E count \in Counts, value \in Items : RefOwnerPartiallyFill(count, value)
    \/ \E count \in Counts : RefOwnerAssumeInit(count)
    \/ \E i \in 0 .. (MaxCap - 1), slot \in Slots : RefWriteUnfilledUninit(i, slot)
    \/ \E i \in 0 .. (MaxCap - 1), slot \in Slots : RefWriteUnfilledMut(i, slot)

SpecRef == InitRef /\ [][NextRef]_vars

\* C22: each BufferRef operation leaves the Buffer, and ends, exactly as the
\* Buffer operation it forwards to does on the Buffer before the call
\* (append -> append, fill_by_repeating -> fill_by_repeating, fill_by_zeroing
\* -> fill_by_zeroing, advance -> assume_init, advance_all -> assume_init_all,
\* revert_to_start -> revert_to_start, unfilled_parts -> unfilled_parts_mut,
\* remaining and items_filled -> the same); the effect is on the owning
\* Buffer, also through a reborrow.
C22_BufferRefForwards ==
    /\ last.op \in {"BufferRef::append", "BufferRef::fill_by_repeating",
                    "BufferRef::fill_by_zeroing"} =>
           (last.outcome = "undefined")
               <=> unfilled_part_mut_undefined(last.pre, debug_assertions)
    /\ (last.op = "BufferRef::append" /\ last.outcome # "undefined") =>
           LET r == append(last.pre, last.item, debug_assertions)
           IN  Self = r.buffer /\ last.outcome = Outcome(r.panicked)
    /\ last.op = "BufferRef::advance" =>
           LET r == assume_init(last.pre, last.count, debug_assertions)
           IN  Self = r.buffer /\ last.outcome = Outcome(r.panicked)
    /\ last.op = "BufferRef::advance_all" =>
           Self = assume_init_all(last.pre) /\ last.outcome = "ok"
    /\ (last.op = "BufferRef::fill_by_repeating" /\ last.outcome # "undefined") =>
           LET r == fill_by_repeating(last.pre, last.item, debug_assertions)
           IN  Self = r.buffer /\ last.outcome = Outcome(r.panicked)
    /\ (last.op = "BufferRef::fill_by_zeroing" /\ last.outcome # "undefined") =>
           LET r == fill_by_zeroing(last.pre, debug_assertions)
           IN  Self = r.buffer /\ last.outcome = Outcome(r.panicked)
    /\ last.op = "BufferRef::by_ref" => Self = last.pre /\ last.outcome = "ok"
    /\ last.op = "revert_to_start" =>
           /\ Self = last.pre
           /\ last.outcome \in {"running", "stack overflow"}
           /\ (stack # <<>> /\ stack[1] = "BufferRef::revert_to_start" /\ Len(stack) >= 2) =>
                  stack[2] = "Buffer::revert_to_start"
    /\ validity(Self) =>
           /\ BufferRef_unfilled_parts(Self) = unfilled_parts_mut(Self)
           /\ BufferRef_remaining(Self, debug_assertions) = remaining(Self, debug_assertions)
           /\ BufferRef_items_filled(Self) = items_filled_of(Self)

\* BufferRef::advance past the initialized slots: Buffer::advance would have
\* refused the count
C22_Witness ==
    /\ last.op = "BufferRef::advance"
    /\ last.outcome = "ok"
    /\ last.count > 0
    /\ last.count > last.pre.initializer.items_initialized - last.pre.items_filled
    /\ validity(Self)

ReachableBuffers ==
    UNION {{[initializer |-> [inner |-> inner, items_initialized |-> initialized],
             items_filled |-> filled] :
                initialized \in 0 .. Len(inner), filled \in 0 .. MaxCursor} :
           inner \in SeqsOf(Slots, MaxCap)}

TwinBuffer == [initializer |-> twin.initializer, items_filled |-> twin.items_filled]

\* largest capacity of the two Buffers that are lent
MaxTwinCap == 2

InitTwin ==
    \E b \in {r \in ReachableBuffers : capacity(r) <= MaxTwinCap}, debug \in BOOLEAN :
        /\ \E filled \in [1 .. min(b.items_filled, capacity(b)) -> Items] :
               twin = [initializer |->
                           [inner |-> [i \in 1 .. Len(b.initializer.inner) |->
                                          IF i <= b.items_filled
                                          THEN filled[i] ELSE b.initializer.inner[i]],
                            items_initialized |-> b.initializer.items_initialized],
                       items_filled |-> b.items_filled,
                       outcome |-> "ok"]
        /\ initializer = b.initializer
        /\ items_filled = b.items_filled
        /\ debug_assertions = debug
        /\ stack = <<>>
        /\ holder = "Buffer"
        /\ last = [op |-> "by_ref", count |-> 0, item |-> Uninit, outcome |-> "ok",
                   held |-> "Buffer", pre |-> b]
        /\ unsafe_used = FALSE
        /\ only_appends = FALSE
        /\ appended = <<>>
        /\ loop = NoLoop

\* the holder can make a call: none is running, and the cursors, the same
\* on both Buffers, are followed
TwinIdle == Idle /\ CursorsFollowed

\* the state after the same call on both Buffers
TwinLeft(b, t, called, twinOutcome) ==
    /\ initializer' = b.initializer
    /\ items_filled' = b.items_filled
    /\ twin' = [initializer |-> t.initializer, items_filled |-> t.items_filled,
                outcome |-> twinOutcome]
    /\ last' = called
    /\ UNCHANGED <<debug_assertions, stack, holder, unsafe_used, only_appends, appended, loop>>

\* the same call has ended on both Buffers. The two calls run the same code
\* of one build on the same cursors and arguments, so without defined
\* behaviour the container is written or not, and each cursor has the same
\* fate, on both
TwinEnds(op, count, item, selfAfter, twinAfter, undefined, panicked) ==
    IF undefined
    THEN \E written \in BOOLEAN, initialized \in CursorFates, filled \in CursorFates :
             TwinLeft(UndefinedOutcome(Self, selfAfter, written, initialized, filled),
                      UndefinedOutcome(TwinBuffer, twinAfter, written, initialized, filled),
                      CalledWith(op, count, item, "undefined"), "undefined")
    ELSE TwinLeft(selfAfter, twinAfter, CalledWith(op, count, item, Outcome(panicked)),
                  Outcome(panicked))

TwinAppend(slice) ==
    /\ TwinIdle
    /\ LET r == BufferRef_append(Self, slice, debug_assertions)
           t == BufferRef_append(TwinBuffer, slice, debug_assertions)
       IN  TwinEnds("BufferRef::append", Len(slice), slice, r.buffer, t.buffer,
                    unfilled_part_mut_undefined(Self, debug_assertions), r.panicked)

TwinFillByRepeating(item) ==
    /\ TwinIdle
    /\ LET r == BufferRef_fill_by_repeating(Self, item, debug_assertions)
           t == BufferRef_fill_by_repeating(TwinBuffer, item, debug_assertions)
       IN  TwinEnds("BufferRef::fill_by_repeating", 0, item, r.buffer, t.buffer,
                    unfilled_part_mut_undefined(Self, debug_assertions), r.panicked)

TwinFillByZeroing ==
    /\ TwinIdle
    /\ LET r == BufferRef_fill_by_zeroing(Self, debug_assertions)
           t == BufferRef_fill_by_zeroing(TwinBuffer, debug_assertions)
       IN  TwinEnds("BufferRef::fill_by_zeroing", 0, ZeroByte, r.buffer, t.buffer,
                    unfilled_part_mut_undefined(Self, debug_assertions), r.panicked)

TwinByRef ==
    /\ TwinIdle
    /\ last.op # "BufferRef::by_ref"
    /\ TwinLeft(BufferRef_by_ref(Self), BufferRef_by_ref(TwinBuffer),
                Called("BufferRef::by_ref", 0, "ok"), "ok")

\* the lengths of the two slices all_parts_mut() builds
unfilled_init_len(b) == wrapping_sub(b.initializer.items_initialized, b.items_filled)
unfilled_uninit_len(b) ==
    wrapping_sub(Len(all_uninit(b.initializer)), b.initializer.items_initialized)

\* slice[i] = slot for a slice built at the slot `from` of the container: the
\* write goes to the slot from + i, which lies in the container or not
slice_write(b, from, i, slot) ==
    IF wrapping_add(from, i) < capacity(b)
    THEN [initializer |->
              [inner |-> [b.initializer.inner EXCEPT ![wrapping_add(from, i) + 1] = slot],
               items_initialized |-> b.initializer.items_initialized],
          items_filled |-> b.items_filled]
    ELSE b

\* all_parts_mut() panics: debug_assert_validity with the cursors out of
\* order (the two Buffers have the same cursors and capacity)
TwinPartsPanic == debug_assertions /\ ~validity(Self)

\* buffer.unfilled_parts().0[i] = item, on both; with the cursors out of
\* order and no debug_assert_validity the slice is built at items_filled
\* with the wrapped length, which has no defined behaviour
TwinWriteUnfilledInit(i, item) ==
    /\ TwinIdle
    /\ ~TwinPartsPanic
    /\ i < unfilled_init_len(Self)
    /\ TwinEnds("BufferRef::unfilled_parts", i, item,
                slice_write(Self, items_filled, i, item),
                slice_write(TwinBuffer, twin.items_filled, i, item),
                ~validity(Self), FALSE)

\* buffer.unfilled_parts().1[i] = slot, on both; with the cursors out of
\* order and no debug_assert_validity the slice is built at
\* items_initialized, whether items_filled lies beyond it or not
TwinWriteUnfilledUninit(i, slot) ==
    /\ TwinIdle
    /\ ~TwinPartsPanic
    /\ i < unfilled_uninit_len(Self)
    /\ TwinEnds("BufferRef::unfilled_parts", i, slot,
                slice_write(Self, initializer.items_initialized, i, slot),
                slice_write(TwinBuffer, twin.initializer.items_initialized, i, slot),
                ~validity(Self), FALSE)

\* buffer.unfilled_parts() with the cursors out of order and
\* debug_assert_validity: the call panics
TwinUnfilledPartsPanic ==
    /\ TwinIdle
    /\ TwinPartsPanic
    /\ last.op # "BufferRef::unfilled_parts"
    /\ TwinLeft(Self, TwinBuffer, Called("BufferRef::unfilled_parts", 0, "panic"),
                "panic")

\* the two calls run the same code on the same stack of frames
TwinRevertToStart ==
    /\ TwinIdle
    /\ stack' = <<"BufferRef::revert_to_start">>
    /\ last' = Called("revert_to_start", 0, "running")
    /\ twin' = [twin EXCEPT !.outcome = "running"]
    /\ UNCHANGED <<initializer, items_filled, debug_assertions, holder, unsafe_used,
                   only_appends, appended, loop>>

TwinStackOverflow ==
    /\ Len(stack) = MaxStack
    /\ last.outcome = "running"
    /\ last' = [last EXCEPT !.outcome = "stack overflow"]
    /\ twin' = [twin EXCEPT !.outcome = "stack overflow"]
    /\ UNCHANGED <<initializer, items_filled, debug_assertions, stack, holder,
                   unsafe_used, only_appends, appended, loop>>

NextTwin ==
    \/ \E slice \in RefSlices : TwinAppend(slice)
    \/ \E item \in Items : TwinFillByRepeating(item)
    \/ TwinFillByZeroing
    \/ TwinByRef
    \/ \E i \in 0 .. (MaxCap - 1), item \in Items : TwinWriteUnfilledInit(i, item)
    \/ \E i \in 0 .. (MaxCap - 1), slot \in Slots : TwinWriteUnfilledUninit(i, slot)
    \/ TwinUnfilledPartsPanic
    \/ TwinRevertToStart
    \/ Buffer_revert_to_start
    \/ BufferRef_revert_to_start
    \/ TwinStackOverflow

SpecTwin == InitTwin /\ [][NextTwin]_vars

\* what safe code reads through the initialized slice all_parts_mut()
\* builds: the slots of the container the slice reaches, by their index in
\* the slice. With items_filled beyond items_initialized and no
\* debug_assert_validity the length wraps, and the indices from
\* usize::MAX - items_filled + 1 on reach the slots below items_initialized
unfilled_init_read(b) ==
    {<<wrapping_sub(at, b.items_filled), b.initializer.inner[at + 1]>> :
         at \in {a \in 0 .. (capacity(b) - 1) :
                     wrapping_sub(a, b.items_filled) < unfilled_init_len(b)}}

\* what the holder of a BufferRef gets from its safe accessors: the cursors,
\* and from unfilled_parts() the lengths of the two slices and the items of
\* the initialized one (a MaybeUninit slot is not read by safe code)
Observed(b) ==
    [items_filled |-> BufferRef_items_filled(b),
     remaining |-> BufferRef_remaining(b, debug_assertions),
     unfilled_parts |->
         IF debug_assertions /\ ~validity(b)
         THEN [outcome |-> "panic"]
         ELSE [outcome |-> IF validity(b) THEN "ok" ELSE "undefined",
               unfilled_init_part |-> unfilled_init_read(b),
               unfilled_init_len |-> unfilled_init_len(b),
               unfilled_uninit_len |-> unfilled_uninit_len(b)]]

\* C23: the holder of a BufferRef cannot read what was filled when it got
\* the reference: after any sequence of safe BufferRef operations
\* (items_filled, remaining, unfilled_parts, append, fill_by_repeating,
\* fill_by_zeroing, revert_to_start, by_ref) it has observed the same on two
\* Buffers that differed in the slots [0, items_filled) alone.
C23_FilledPartIsNotObservable ==
    /\ Observed(Self) = Observed(TwinBuffer)
    /\ last.outcome = twin.outcome

\* ------------------------------------------------------------------------
\* A container [MaybeUninit<u8>; N] of the caller and the AssertInit
\* wrappers made over it; the container is kept in initializer.inner, and no
\* Tracker or Buffer is involved
\* ------------------------------------------------------------------------

\* [MaybeUninit::uninit(); N] with any of its slots set to MaybeUninit::new(item)
MaybeUninitContainers == SeqsOf(Items \cup {Uninit}, MaxCap)

Wrappers == {"AssertInit", "&AssertInit", "&mut AssertInit"}

\* the wrappers a &mut self method can be called on
MutWrappers == {"AssertInit", "&mut AssertInit"}

InitWrap ==
    \E c \in MaybeUninitContainers :
        /\ initializer = BufferInitializer_uninit(c)
        /\ items_filled = 0
        /\ debug_assertions = TRUE
        /\ stack = <<>>
        /\ twin = NoTwin
        /\ holder = "Container"
        /\ last = [op |-> "array", count |-> 0, item |-> Uninit, outcome |-> "ok",
                   held |-> "Container", pre |-> from_initializer(BufferInitializer_uninit(c))]
        /\ unsafe_used = FALSE
        /\ only_appends = FALSE
        /\ appended = <<>>
        /\ loop = NoLoop

\* the state after a call on the container or on its wrapper
Wrapped(inner, h, op, isUnsafe) ==
    Left(from_initializer(BufferInitializer_uninit(inner)), h, Called(op, 0, "ok"),
         isUnsafe, FALSE)

\* container[i] = MaybeUninit::new(item)
ContainerWrite(i, item) ==
    /\ holder = "Container"
    /\ i < Len(initializer.inner)
    /\ initializer.inner[i + 1] # item
    /\ Wrapped([initializer.inner EXCEPT ![i + 1] = item], "Container",
               "MaybeUninit::new", FALSE)

\* unsafe
AssertInitNewUnchecked ==
    /\ holder = "Container"
    /\ Wrapped(AssertInit_new_unchecked(initializer.inner).inner, "AssertInit",
               "new_unchecked", TRUE)

\* AssertInit::from_ref(&container): a safe function
AssertInitFromRef ==
    /\ holder = "Container"
    /\ Wrapped(AssertInit_from_ref(initializer.inner).inner, "&AssertInit",
               "from_ref", FALSE)

\* AssertInit::from_mut(&mut container): a safe function
AssertInitFromMut ==
    /\ holder = "Container"
    /\ Wrapped(AssertInit_from_mut(initializer.inner).inner, "&mut AssertInit",
               "from_mut", FALSE)

\* *wrapper or wrapper.clone(), the derived Copy and Clone: a safe function
\* gives an owned wrapper over a copy of the container behind any wrapper
AssertInitClone ==
    /\ holder \in Wrappers
    /\ last.op # "clone"
    /\ Wrapped(AssertInit_clone(AssertInit_from_ref(initializer.inner)).inner,
               "AssertInit", "clone", FALSE)

\* wrapper.inner_mut()[i] = slot: a safe function hands out &mut T, and the
\* slot written is MaybeUninit::new(item) or MaybeUninit::uninit()
AssertInitInnerMut(i, slot) ==
    /\ holder \in MutWrappers
    /\ i < Len(initializer.inner)
    /\ initializer.inner[i + 1] # slot
    /\ Left(from_initializer(BufferInitializer_uninit(
                 [initializer.inner EXCEPT ![i + 1] = slot])),
            holder, CalledWith("inner_mut", i, slot, "ok"), FALSE, FALSE)

\* wrapper.get_init_mut()[i] = item, also what DerefMut, AsMut and BorrowMut
\* give: a safe function
AssertInitGetInitMut(i, item) ==
    /\ holder \in MutWrappers
    /\ i < Len(get_init_mut(AssertInit_new_unchecked(initializer.inner)))
    /\ initializer.inner[i + 1] # item
    /\ Left(from_initializer(BufferInitializer_uninit(
                 [initializer.inner EXCEPT ![i + 1] = item])),
            holder, CalledWith("get_init_mut", i, item, "ok"), FALSE, FALSE)

\* wrapper.get_uninit_mut()[i] = slot: unsafe
AssertInitGetUninitMut(i, slot) ==
    /\ holder \in MutWrappers
    /\ i < Len(initializer.inner)
    /\ initializer.inner[i + 1] # slot
    /\ Left(from_initializer(BufferInitializer_uninit(
                 [initializer.inner EXCEPT ![i + 1] = slot])),
            holder, CalledWith("get_uninit_mut", i, slot, "ok"), TRUE, FALSE)

\* into_inner() of the owned wrapper, or the end of the borrow
AssertInitIntoInner ==
    /\ holder \in Wrappers
    /\ Wrapped(AssertInit_into_inner(AssertInit_new_unchecked(initializer.inner)),
               "Container", "into_inner", FALSE)

NextWrap ==
    \/ \E i \in 0 .. (MaxCap - 1), item \in Items : ContainerWrite(i, item)
    \/ AssertInitNewUnchecked
    \/ AssertInitFromRef
    \/ AssertInitFromMut
    \/ AssertInitClone
    \/ \E i \in 0 .. (MaxCap - 1), slot \in Slots : AssertInitInnerMut(i, slot)
    \/ \E i \in 0 .. (MaxCap - 1), item \in Items : AssertInitGetInitMut(i, item)
    \/ \E i \in 0 .. (MaxCap - 1), slot \in Slots : AssertInitGetUninitMut(i, slot)
    \/ AssertInitIntoInner

SpecWrap == InitWrap /\ [][NextWrap]_vars

\* C25: with safe functions alone, an AssertInit wrapper (by value or by
\* reference), whose get_init_ref() hands out every slot as an initialized
\* item, exists only over a container all slots of which are initialized.
C25_SafeWrapperIsInitialized ==
    (holder \in Wrappers /\ ~unsafe_used) =>
        \A i \in 1 .. Len(initializer.inner) :
            get_init_ref(AssertInit_from_ref(initializer.inner))[i] # Uninit


C34_AppendWritesAtTheFilledCursor ==
    (last.op = "BufferRef::append" /\ last.outcome = "ok") =>
        /\ Len(initializer.inner) = Len(last.pre.initializer.inner)
        /\ \A i \in 1 .. Len(initializer.inner) :
              initializer.inner[i] =
                  IF i > last.pre.items_filled /\ i <= last.pre.items_filled + Len(last.item)
                  THEN last.item[i - last.pre.items_filled]
                  ELSE last.pre.initializer.inner[i]

\* an append over an initialized but unfilled slot that held another item,
\* between a filled slot and a slot that it leaves
C34_Witness ==
    /\ last.op = "BufferRef::append"
    /\ last.outcome = "ok"
    /\ Len(last.item) = 1
    /\ last.pre.items_filled > 0
    /\ last.pre.items_filled < last.pre.initializer.items_initialized
    /\ last.pre.initializer.inner[last.pre.items_filled + 1] # last.item[1]
    /\ items_filled < capacity(Self)


\* ------------------------------------------------------------------------
\* revert_to_start under fair scheduling: a call that has been made goes on
\* running, frame after frame, until the stack overflows
\* ------------------------------------------------------------------------

NextRevert ==
    \/ \E slice \in Slices : BufferAppend(slice)
    \/ \E entry \in {"Buffer::revert_to_start", "BufferRef::revert_to_start"} :
           RevertToStart(entry)
    \/ Buffer_revert_to_start
    \/ BufferRef_revert_to_start
    \/ StackOverflow

SpecRevert ==
    /\ Init
    /\ [][NextRevert]_vars
    /\ WF_vars(Buffer_revert_to_start)
    /\ WF_vars(BufferRef_revert_to_start)
    /\ WF_vars(StackOverflow)

\* C35: Buffer::revert_to_start() and BufferRef::revert_to_start() terminate:
\* from every reachable state a call that has been made returns to its
\* caller after finitely many steps of the chain Buffer::revert_to_start ->
\* by_ref() -> BufferRef::revert_to_start -> inner.revert_to_start.
C35_RevertToStartReturns ==
    (last.op = "revert_to_start" /\ stack # <<>>) ~> (stack = <<>>)



\* a call of assume_init(count) or of BufferRef::advance(count) in a build
\* with debug assertions off has just ended
ReleaseAssumeInit ==
    /\ last.op \in {"Buffer::assume_init", "BufferRef::advance"}
    /\ ~debug_assertions

\* C37 as stated: with debug assertions off assume_init(count) and
\* BufferRef::advance(count) complete for every count, and afterwards
\* items_filled <= capacity and items_initialized <= capacity hold if and
\* only if count <= remaining() held before the call.
C37_BoundsHoldIffCountWithinRemaining ==
    ReleaseAssumeInit =>
        /\ last.outcome = "ok"
        /\ (/\ items_filled <= capacity(Self)
            /\ initializer.items_initialized <= capacity(Self))
               <=> (last.count <= remaining(last.pre, debug_assertions).value)

\* C37 amended: with debug assertions off assume_init(count) and
\* BufferRef::advance(count) complete for every count and leave items_filled
\* at (items_filled + count) mod 2^w and items_initialized at the max of
\* that and its old value; called on a Buffer whose cursors are in order
\* (items_filled <= items_initialized <= capacity), the bounds hold
\* afterwards when count <= remaining() held before, and are broken when
\* count > remaining() and items_filled + count does not overflow the
\* machine word; when it does overflow, items_filled wraps below its old
\* value and both bounds hold although count > remaining().
C37_BoundsHoldIffCountWithinRemainingUnlessWrapped ==
    ReleaseAssumeInit =>
        LET sum == last.pre.items_filled + last.count
            left == remaining(last.pre, debug_assertions).value
        IN  /\ last.outcome = "ok"
            /\ items_filled = sum % USIZE_MOD
            /\ initializer.items_initialized =
                   max(items_filled, last.pre.initializer.items_initialized)
            /\ validity(last.pre) =>
                   /\ last.count <= left =>
                          /\ items_filled <= capacity(Self)
                          /\ initializer.items_initialized <= capacity(Self)
                   /\ (last.count > left /\ sum < USIZE_MOD) =>
                          /\ items_filled > capacity(Self)
                          /\ initializer.items_initialized > capacity(Self)
                   /\ sum >= USIZE_MOD =>
                          /\ last.count > left
                          /\ items_filled < last.pre.items_filled
                          /\ items_filled <= capacity(Self)
                          /\ initializer.items_initialized <= capacity(Self)

\* a count beyond remaining() wrapped items_filled and left both cursors
\* within the capacity
C37_Witness ==
    /\ ReleaseAssumeInit
    /\ validity(last.pre)
    /\ last.pre.items_filled + last.count >= USIZE_MOD
    /\ last.count > remaining(last.pre, debug_assertions).value
    /\ items_filled <= capacity(Self)
    /\ initializer.items_initialized <= capacity(Self)

\* ------------------------------------------------------------------------
\* The safe operations of an owner that also assigns through the
\* &mut BufferInitializer of initializer_mut()
\* ------------------------------------------------------------------------

\* the Trackers safe code can build: BufferInitializer::uninit over a
\* container never written, BufferInitializer::new over an initialized one
FreshTrackers ==
    {BufferInitializer_uninit(c) : c \in UninitContainers}
        \cup {BufferInitializer_new(c) : c \in InitContainers}

\* no call is running
AssignIdle == Idle /\ CursorsFollowed

\* *buffer.initializer_mut() = t
AssignInitializer(t) ==
    /\ AssignIdle
    /\ Returned([initializer |-> t, items_filled |-> items_filled],
                "initializer_mut", 0, FALSE, FALSE, FALSE)

AssignAppend(slice) ==
    /\ AssignIdle
    /\ BufferAppend(slice)

AssignAdvance(count) ==
    /\ AssignIdle
    /\ BufferAdvance(count)

AssignPartiallyFill(count, value) ==
    /\ AssignIdle
    /\ PartiallyFillUninitPart(count, value)

AssignAdvanceToInitPart ==
    /\ AssignIdle
    /\ BufferAdvanceToInitPart

\* buffer.unfilled_parts_mut().1[i] = slot; debug_assert_validity of
\* all_parts_mut() panics when the cursors are out of order
AssignWriteUnfilledUninit(i, slot) ==
    /\ AssignIdle
    /\ IF validity(Self)
       THEN WriteUnfilledUninitPart(i, slot)
       ELSE /\ i = 0
            /\ ReturnedWith(Self, "unfilled_parts_mut", i, slot, TRUE, FALSE, FALSE)

NextAssign ==
    \/ \E t \in FreshTrackers : AssignInitializer(t)
    \/ \E slice \in RefSlices : AssignAppend(slice)
    \/ \E count \in Counts : AssignAdvance(count)
    \/ \E count \in Counts, value \in Items : AssignPartiallyFill(count, value)
    \/ AssignAdvanceToInitPart
    \/ \E i \in 0 .. (MaxCap - 1), slot \in Slots : AssignWriteUnfilledUninit(i, slot)

SpecAssign == Init /\ [][NextAssign]_vars

\* C36: no sequence of safe public calls reaches a state with items_filled >
\* items_initialized or items_filled > capacity, an assignment of another
\* Tracker through initializer_mut() into a Buffer with items_filled > 0
\* included.
C36_SafeCallsKeepFilledBelowInitialized ==
    ~unsafe_used =>
        /\ items_filled <= initializer.items_initialized
        /\ items_filled <= capacity(Self)

\* C38: in every state reached through safe operations none of the wrapping
\* operations of Buffer wraps: capacity - items_filled, items_initialized -
\* items_filled, capacity - items_initialized, and items_filled + count in
\* advance, are the mathematical results and lie in 0 ..= capacity.
C38_NoWrappingOperationWraps ==
    ~unsafe_used =>
        /\ ~remaining(Self, debug_assertions).panicked
        /\ remaining(Self, debug_assertions).value = capacity(Self) - items_filled
        /\ remaining(Self, debug_assertions).value \in 0 .. capacity(Self)
        /\ wrapping_sub(initializer.items_initialized, items_filled) =
               initializer.items_initialized - items_filled
        /\ wrapping_sub(initializer.items_initialized, items_filled) \in 0 .. capacity(Self)
        /\ wrapping_sub(capacity(Self), initializer.items_initialized) =
               capacity(Self) - initializer.items_initialized
        /\ wrapping_sub(capacity(Self), initializer.items_initialized) \in 0 .. capacity(Self)
        /\ (last.op = "advance" /\ last.outcome = "ok") =>
               /\ wrapping_add(last.pre.items_filled, last.count) =
                      last.pre.items_filled + last.count
               /\ items_filled = last.pre.items_filled + last.count
               /\ items_filled \in 0 .. capacity(Self)


\* ------------------------------------------------------------------------
\* The fill loop: while !buffer.is_full() { buffer.append(slice) }, with a
\* non-empty slice of at most remaining() items each time round
\* ------------------------------------------------------------------------

\* the loop starts on any Buffer the safe operations build, in either build
InitFill ==
    \E b \in ReachableBuffers, debug \in BOOLEAN :
        /\ initializer = b.initializer
        /\ items_filled = b.items_filled
        /\ debug_assertions = debug
        /\ stack = <<>>
        /\ twin = NoTwin
        /\ holder = "Buffer"
        /\ last = [op |-> "by_ref", count |-> 0, item |-> Uninit, outcome |-> "ok",
                   held |-> "Buffer", pre |-> b]
        /\ unsafe_used = FALSE
        /\ only_appends = FALSE
        /\ appended = <<>>
        /\ loop = [start |-> b.items_filled, appends |-> 0]

\* the turns of the loop are counted up to one more than the largest capacity
MaxTurns == MaxCap + 1

\* the program is running: no call of a turn of the loop has panicked
LoopRunning ==
    /\ Idle
    /\ CursorsFollowed
    /\ loop.appends <= MaxTurns
    /\ ~(last.outcome = "panic" /\ ~is_full(last.pre))

\* one turn of the loop: is_full(), remaining() (whose debug_assert panics
\* when items_filled > capacity), then the append
LoopAppend(slice) ==
    /\ LoopRunning
    /\ ~is_full(Self)
    /\ slice # <<>>
    /\ LET left == remaining(Self, debug_assertions)
       IN  IF left.panicked
           THEN /\ Len(slice) = 1
                /\ Left(Self, holder, CalledWith("remaining", 0, slice, "panic"),
                        FALSE, FALSE)
           ELSE /\ Len(slice) <= left.value
                /\ IF unfilled_part_mut_undefined(Self, debug_assertions)
                   THEN Undefined(append(Self, slice, debug_assertions).buffer,
                                  "append", Len(slice), slice)
                   ELSE BufferAppend(slice)

\* the loop has ended: an append of a non-empty slice to the full Buffer
FullAppend(slice) ==
    /\ LoopRunning
    /\ is_full(Self)
    /\ slice # <<>>
    /\ BufferAppend(slice)

\* the loop has ended: an advance of the full Buffer by count > 0
FullAdvance(count) ==
    /\ LoopRunning
    /\ is_full(Self)
    /\ count > 0
    /\ BufferAdvance(count)

\* the slices the loop appends: one item repeated, of every length a
\* container can hold
LoopSlices == {Repeat(x, n) : x \in Items, n \in 1 .. MaxCap}

NextFill ==
    \/ \E slice \in LoopSlices : LoopAppend(slice)
    \/ \E slice \in LoopSlices : FullAppend(slice)
    \/ \E count \in Counts : FullAdvance(count)

\* the loop is the running program: while its condition holds, it makes
\* another turn
SpecFill ==
    /\ InitFill
    /\ [][NextFill]_vars
    /\ WF_vars(\E slice \in LoopSlices : LoopAppend(slice))

\* the full state (items_filled, items_initialized) = (capacity, capacity)
FullState ==
    /\ is_full(Self)
    /\ items_filled = capacity(Self)
    /\ initializer.items_initialized = capacity(Self)

\* every turn of the loop succeeds and moves the filled cursor on by the
\* length of its slice, no more than capacity - items_filled turns are made,
\* and in the full state append and advance fail and change nothing
FillLoopSafe ==
    /\ is_full(last.pre) \/ last.outcome = "ok"
    /\ loop.appends = 0 \/ loop.appends <= capacity(Self) - loop.start
    /\ (last.op = "append" /\ ~is_full(last.pre)) =>
           /\ last.outcome = "ok"
           /\ last.count > 0
           /\ items_filled = last.pre.items_filled + last.count
    /\ (last.op \in {"append", "advance"} /\ is_full(last.pre)) =>
           /\ last.count > 0
           /\ last.outcome = "panic"
           /\ Self = last.pre
           /\ FullState

\* C39: from any reachable state the loop that appends, while !is_full(), a
\* non-empty slice of length <= remaining() never fails and eventually
\* reaches the full state (capacity, capacity), after at most capacity -
\* items_filled appends; in the full state append of a non-empty slice and
\* advance of a count > 0 fail.
C39_FillLoopReachesTheFullState ==
    /\ []FillLoopSafe
    /\ <>[]FullState

====
